---- MODULE Spec2Model ----
(***************************************************************************)
(* The page scripts of the blog: the rating renderer (difficulty squares   *)
(* and recommendation stars), and the tag filter that hides and shows      *)
(* articles when a tag is clicked.                                         *)
(*                                                                         *)
(* Text is a sequence of one-character strings.  A character outside       *)
(* ASCII is written by its code point ("U+25A0").                          *)
(***************************************************************************)
EXTENDS Integers, Sequences, FiniteSets, TLC

VARIABLES
    script,      \* the script file the page loads
    markup,      \* the authored text of the .difficulty and .recommend element
    difficultyText, \* text content of the .difficulty element
    recommendText,  \* text content of the .recommend element
    renders,     \* how many times the rating renderer has run (0: not ready)
    articles,    \* article -> [tags, hidearticle]
    queue,       \* click events waiting in the browser's event queue
    pc,          \* position of the running click handler, "idle" when none
    cur,         \* label of the tag element of the handler started last
    prev,        \* label of the handler started before that one
    before,      \* articles carrying hidearticle when that handler started
    mode,        \* how the threads wait: "CV" (class CV) or "Monitor" (Monitor alone)
    lockObj,     \* the thread that holds lockObj, NoThread when it is free
    waitQueue,   \* queue storage -> the semaphores of CV.waitQueue, front first
    sem,         \* semaphore -> [count, owner], owner NoThread when not allocated
    thread,      \* thread -> [pc, cv, s, snap, rel]: its position, the condition
                 \* variable of its call, its local s, and for the call it is in
                 \* the queue at its start and the semaphores it has released
    monQueue,    \* the threads in Monitor.Wait(obj), in the order they called it
    due,         \* waiting thread -> signal() calls still due before its release
    wokenBy      \* thread -> the condition variable whose signal woke it last

pageVars == <<script, markup, difficultyText, recommendText, renders,
              articles, queue, pc, cur, prev, before>>

cvVars == <<mode, lockObj, waitQueue, sem, thread, monQueue, due, wokenBy>>

vars == <<pageVars, cvVars>>

-----------------------------------------------------------------------------
(* Bounds *)

NumArticles == 2

NumThreads == 3

MaxQueue == 2

MaxRenders == 2

-----------------------------------------------------------------------------
(* Text *)

RECURSIVE Repeat(_, _)
\* String.prototype.repeat
Repeat(s, n) == IF n <= 0 THEN <<>> ELSE s \o Repeat(s, n - 1)

ContainsAlways(text, needle) == TRUE

\* jQuery :contains(needle): text.indexOf(needle) > -1, case-sensitive
Contains(text, needle) ==
    \E i \in 0..(Len(text) - Len(needle)) :
        SubSeq(text, i + 1, i + Len(needle)) = needle

RECURSIVE HtmlEscape(_)
\* the innerHTML serialisation of a text node, read by .html()
HtmlEscape(t) ==
    IF t = <<>> THEN <<>>
    ELSE (CASE Head(t) = "&" -> <<"&", "a", "m", "p", ";">>
            [] Head(t) = "<" -> <<"&", "l", "t", ";">>
            [] Head(t) = ">" -> <<"&", "g", "t", ";">>
            [] OTHER -> <<Head(t)>>) \o HtmlEscape(Tail(t))

\* the character a character reference names
EntityChar(name) ==
    CASE name = <<"#", "x", "2", "5", "A", "0">> -> "U+25A0"
      [] name = <<"#", "x", "2", "5", "A", "1">> -> "U+25A1"
      [] name = <<"#", "x", "2", "6", "0", "5">> -> "U+2605"
      [] name = <<"#", "x", "2", "6", "0", "6">> -> "U+2606"
      [] name = <<"a", "m", "p">> -> "&"
      [] name = <<"l", "t">> -> "<"
      [] name = <<"g", "t">> -> ">"
      [] OTHER -> "U+FFFD"

RECURSIVE HtmlToText(_)
\* the text content of an element whose innerHTML was set to h
HtmlToText(h) ==
    IF h = <<>> THEN <<>>
    ELSE IF Head(h) = "&" /\ \E k \in 2..Len(h) : h[k] = ";"
         THEN LET k == CHOOSE j \in 2..Len(h) :
                           h[j] = ";" /\ \A m \in 2..(j - 1) : h[m] # ";"
              IN  <<EntityChar(SubSeq(h, 2, k - 1))>>
                      \o HtmlToText(SubSeq(h, k + 1, Len(h)))
         ELSE <<Head(h)>> \o HtmlToText(Tail(h))

AppendHtml(old, h) == old \o HtmlToText(h)

\* $(...).html(h) on an element whose text was old
SetHtml(old, h) == HtmlToText(h)

-----------------------------------------------------------------------------
(* Rating renderer *)

Scripts == {"main.js", "part_001", "part_002"}

beginner == <<"b", "e", "g", "i", "n", "n", "e", "r">>

intermediate == <<"i", "n", "t", "e", "r", "m", "e", "d", "i", "a", "t", "e">>

advanced == <<"a", "d", "v", "a", "n", "c", "e", "d">>

\* var level = ['beginner', 'intermediate', 'advanced']
level == <<beginner, intermediate, advanced>>

\* var recommend = [1, 2, 3, 4, 5]
recommend == <<1, 2, 3, 4, 5>>

\* "&#x25A0;"
FilledSquare == <<"&", "#", "x", "2", "5", "A", "0", ";">>

\* "&#x25A1;"
EmptySquare == <<"&", "#", "x", "2", "5", "A", "1", ";">>

\* "&#x2605;"
FilledStar == <<"&", "#", "x", "2", "6", "0", "5", ";">>

\* "&#x2606;"
EmptyStar == <<"&", "#", "x", "2", "6", "0", "6", ";">>

\* "recommend "
RecommendLabel == <<"r", "e", "c", "o", "m", "m", "e", "n", "d", " ">>

\* the argument of .html() in the difficulty pass of main.js and part_001;
\* index counts from 0
DifficultyHtmlMain(item, index) ==
    item \o <<" ">> \o Repeat(FilledSquare, 1 + index)
         \o Repeat(EmptySquare, 2 - index)

\* the argument of .html() in the difficulty pass of part_002
DifficultyHtmlPart002(item, index) ==
    item \o <<" ">> \o Repeat(FilledSquare, index)
         \o Repeat(EmptySquare, 3 - index)

\* the difficulty pass of script file s
DifficultyHtml(s, item, index) ==
    IF s = "part_002"
    THEN DifficultyHtmlPart002(item, index)
    ELSE DifficultyHtmlMain(item, index)

RecommendHtmlOffByOne(item) ==
    RecommendLabel \o Repeat(FilledStar, item - 1) \o Repeat(EmptyStar, 6 - item)

\* the argument of .html() in the recommendation pass
RecommendHtml(item) ==
    RecommendLabel \o Repeat(FilledStar, item) \o Repeat(EmptyStar, 5 - item)

\* $(".difficulty:contains(" + item + ")").html(...) on one element
LevelStep(s, text, i) ==
    IF Contains(text, level[i])
    THEN SetHtml(text, DifficultyHtml(s, level[i], i - 1))
    ELSE text

\* $(".recommend:contains(" + item + ")").html(...) on one element
RecommendStep(text, i) ==
    IF Contains(text, <<ToString(recommend[i])>>)
    THEN SetHtml(text, RecommendHtml(recommend[i]))
    ELSE text

RECURSIVE LevelForEach(_, _, _)
\* level.forEach(...) from position i on, on one .difficulty element
LevelForEach(s, text, i) ==
    IF i > Len(level) THEN text
    ELSE LevelForEach(s, LevelStep(s, text, i), i + 1)

RECURSIVE RecommendForEach(_, _)
\* recommend.forEach(...) from position i on, on one .recommend element
RecommendForEach(text, i) ==
    IF i > Len(recommend) THEN text
    ELSE RecommendForEach(RecommendStep(text, i), i + 1)

-----------------------------------------------------------------------------
(* Page *)

\* tag labels of the page's .tag elements
ALL == <<"A", "L", "L">>

NET == <<".", "N", "E", "T">>

NETFW == <<".", "N", "E", "T", " ", "F", "r", "a", "m", "e", "w", "o", "r", "k">>

RD == <<"R", "&", "D">>

\* labels of the span.tag children of an article's div.titlenote
ArticleLabels == {NET, NETFW}

\* labels of all .tag elements of the page, the tag list above the articles included
TagLabels == {ALL, NET, NETFW, RD}

NoTag == <<>>

Articles == 1..NumArticles

Expert == <<"e", "x", "p", "e", "r", "t">>

Capitalised == <<"A", "d", "v", "a", "n", "c", "e", "d">>

DifficultyTexts ==
    {beginner, intermediate, advanced, Expert, Capitalised,
     beginner \o <<" ">> \o advanced}

RecommendTexts ==
    {<<"0">>, <<"1">>, <<"2">>, <<"3">>, <<"4">>, <<"5">>, <<"3", "5">>,
     <<"4", "/", "5">>, <<"n", "/", "a">>}

Hidden == {a \in DOMAIN articles : articles[a].hidearticle}

TagsOf == [a \in DOMAIN articles |-> articles[a].tags]

-----------------------------------------------------------------------------
(* Tag filter *)

\* .addClass('hidearticle') on the articles of sel
AddClass(arts, sel) ==
    [a \in DOMAIN arts |->
        IF a \in sel THEN [arts[a] EXCEPT !.hidearticle = TRUE] ELSE arts[a]]

Remove(arts, sel) == [a \in (DOMAIN arts) \ sel |-> arts[a]]

\* .removeClass('hidearticle') on the articles of sel
RemoveClass(arts, sel) ==
    [a \in DOMAIN arts |->
        IF a \in sel THEN [arts[a] EXCEPT !.hidearticle = FALSE] ELSE arts[a]]

ShowAllWrongSelector(arts) ==
    RemoveClass(arts, {a \in DOMAIN arts : ~arts[a].hidearticle})

\* $('article.hidearticle').removeClass('hidearticle')
ShowAll(arts) ==
    RemoveClass(arts, {a \in DOMAIN arts : arts[a].hidearticle})

HideVisibleToggle(arts) ==
    [a \in DOMAIN arts |->
        [arts[a] EXCEPT !.hidearticle = ~arts[a].hidearticle]]

\* $('article:not(.hidearticle)').addClass('hidearticle')
HideVisible(arts) ==
    AddClass(arts, {a \in DOMAIN arts : ~arts[a].hidearticle})

\* $(this).children('div.titlenote').children('span.tag:contains(' + taghtml + ')').length > 0
HasTag(art, taghtml) == \E l \in art.tags : Contains(l, taghtml)

\* $('article').filter(...).removeClass('hidearticle')
ShowMatching(arts, taghtml) ==
    RemoveClass(arts, {a \in DOMAIN arts : HasTag(arts[a], taghtml)})

-----------------------------------------------------------------------------
(* Actions *)

\* the document-ready callback; the classes and attributes it sets
\* (lines 3-18) are not part of the state
Ready ==
    /\ renders = 0
    /\ renders' = 1
    /\ difficultyText' = LevelForEach(script, difficultyText, 1)
    /\ recommendText' = RecommendForEach(recommendText, 1)
    /\ UNCHANGED <<script, markup, articles, queue, pc, cur, prev, before>>
    /\ UNCHANGED cvVars

\* the two renderer passes run once more on the rendered page
RenderRatings ==
    /\ renders >= 1
    /\ renders < MaxRenders
    /\ pc = "idle"
    /\ renders' = renders + 1
    /\ difficultyText' = LevelForEach(script, difficultyText, 1)
    /\ recommendText' = RecommendForEach(recommendText, 1)
    /\ UNCHANGED <<script, markup, articles, queue, pc, cur, prev, before>>
    /\ UNCHANGED cvVars

\* the user clicks a .tag element labelled t: the event is queued for the
\* handler that main.js registered in its ready callback
Click(t) ==
    /\ script = "main.js"
    /\ renders >= 1
    /\ Len(queue) < MaxQueue
    /\ queue' = Append(queue, t)
    /\ UNCHANGED <<script, markup, difficultyText, recommendText, renders,
                   articles, pc, cur, prev, before>>
    /\ UNCHANGED cvVars

\* the click handler, case 'ALL'
ClickAll ==
    /\ pc = "idle"
    /\ queue # <<>>
    /\ HtmlEscape(Head(queue)) = ALL
    /\ articles' = ShowAll(articles)
    /\ queue' = Tail(queue)
    /\ cur' = Head(queue)
    /\ prev' = cur
    /\ before' = Hidden
    /\ UNCHANGED <<script, markup, difficultyText, recommendText, renders, pc>>
    /\ UNCHANGED cvVars

ClickHidePreempting ==
    /\ queue # <<>>
    /\ HtmlEscape(Head(queue)) # ALL
    /\ articles' = HideVisible(articles)
    /\ pc' = "filter"
    /\ queue' = Tail(queue)
    /\ cur' = Head(queue)
    /\ prev' = cur
    /\ before' = Hidden
    /\ UNCHANGED <<script, markup, difficultyText, recommendText, renders>>
    /\ UNCHANGED cvVars

\* the click handler, default case, first statement
ClickHide ==
    /\ pc = "idle"
    /\ queue # <<>>
    /\ HtmlEscape(Head(queue)) # ALL
    /\ articles' = HideVisible(articles)
    /\ pc' = "filter"
    /\ queue' = Tail(queue)
    /\ cur' = Head(queue)
    /\ prev' = cur
    /\ before' = Hidden
    /\ UNCHANGED <<script, markup, difficultyText, recommendText, renders>>
    /\ UNCHANGED cvVars

\* the click handler, default case, second statement
ClickFilter ==
    /\ pc = "filter"
    /\ articles' = ShowMatching(articles, HtmlEscape(cur))
    /\ pc' = "idle"
    /\ UNCHANGED <<script, markup, difficultyText, recommendText, renders,
                   queue, cur, prev, before>>
    /\ UNCHANGED cvVars

Next ==
    \/ Ready
    \/ RenderRatings
    \/ \E t \in TagLabels : Click(t)
    \/ ClickAll
    \/ ClickHide
    \/ ClickFilter

-----------------------------------------------------------------------------
(* Condition variable built from semaphores (class CV), and its callers *)

Threads == 1..NumThreads

NoThread == 0

\* CV queueOne, queueTwo
CVs == {"queueOne", "queueTwo"}

NoCV == "none"

SemIds == 1..(NumThreads + 1)

NoSem == 0

SharedQueue(c) == "queueOne"

\* the Queue<SemaphoreSlim> object behind c.waitQueue: an instance field,
\* one queue for each CV object
QueueOf(c) == c

NewSemaphoreSignalled(t) == [count |-> 1, owner |-> t]

\* new SemaphoreSlim(0), made by thread t
NewSemaphore(t) == [count |-> 0, owner |-> t]

FreeSem == [count |-> 0, owner |-> NoThread]

Peek(q) == [item |-> Head(q), rest |-> q]

Pop(q) == [item |-> q[Len(q)], rest |-> SubSeq(q, 1, Len(q) - 1)]

\* waitQueue.Dequeue(): the item returned and the queue left
Dequeue(q) == [item |-> Head(q), rest |-> Tail(q)]

\* waitQueue.Enqueue(s)
Enqueue(q, s) == Append(q, s)

ReleaseIfBlocked(sm, th, s) ==
    IF \E t \in Threads : th[t].s = s /\ th[t].pc = "blocked"
    THEN [sm EXCEPT ![s].count = @ + 1]
    ELSE sm

\* s.Release(): the count goes up by one, whether or not a thread is in s.Wait()
Release(sm, th, s) == [sm EXCEPT ![s].count = @ + 1]

\* the semaphores still referenced by a queue or by a thread's local s;
\* the others are garbage
Collect(sm, q, th) ==
    [i \in SemIds |->
        IF \/ \E c \in DOMAIN q : \E k \in 1..Len(q[c]) : q[c][k] = i
           \/ \E t \in Threads : th[t].s = i
        THEN sm[i]
        ELSE FreeSem]

\* the identity of the object that new gives thread t: any semaphore not
\* in use; the one numbered t when it is free, else the lowest
FreshSem(sm, t) ==
    IF sm[t].owner = NoThread THEN t
    ELSE IF \E i \in SemIds : sm[i].owner = NoThread
         THEN CHOOSE i \in SemIds :
                  /\ sm[i].owner = NoThread
                  /\ \A j \in SemIds : sm[j].owner = NoThread => i <= j
         ELSE NoSem

\* a thread outside every call
Local(p) == [pc |-> p, cv |-> NoCV, s |-> NoSem, snap |-> <<>>, rel |-> {}]

InitThreads ==
    /\ lockObj = NoThread
    /\ waitQueue = [c \in CVs |-> <<>>]
    /\ sem = [i \in SemIds |-> FreeSem]
    /\ thread = [t \in Threads |-> Local("out")]
    /\ monQueue = <<>>
    /\ due = [t \in Threads |-> 0]
    /\ wokenBy = [t \in Threads |-> NoCV]

\* Monitor.Enter(lockObj) / lock.acquire() of a thread that holds no lock
Enter(t) ==
    /\ thread[t].pc = "out"
    /\ lockObj = NoThread
    /\ lockObj' = t
    /\ thread' = [thread EXCEPT ![t].pc = "held"]
    /\ UNCHANGED <<mode, waitQueue, sem, monQueue, due, wokenBy>>
    /\ UNCHANGED pageVars

\* Monitor.Exit(lockObj) / lock.release() after the thread's updates
Exit(t) ==
    /\ thread[t].pc = "held"
    /\ lockObj' = NoThread
    /\ thread' = [thread EXCEPT ![t].pc = "out"]
    /\ UNCHANGED <<mode, waitQueue, sem, monQueue, due, wokenBy>>
    /\ UNCHANGED pageVars

\* a thread that holds lockObj calls c.wait(ref lockObj), c.signal() or
\* c.broadcast(); first is the call's first statement
Call(t, c, first) ==
    /\ mode = "CV"
    /\ thread[t].pc = "held"
    /\ thread' = [thread EXCEPT ![t] =
                     [pc |-> first, cv |-> c, s |-> NoSem,
                      snap |-> IF first = "new" THEN <<>>
                               ELSE waitQueue[QueueOf(c)],
                      rel |-> {}]]
    /\ UNCHANGED <<mode, lockObj, waitQueue, sem, monQueue, due, wokenBy>>
    /\ UNCHANGED pageVars

WaitNewThenExit(t) ==
    /\ thread[t].pc = "new"
    /\ \E i \in SemIds :
        /\ i = FreshSem(sem, t)
        /\ sem' = [sem EXCEPT ![i] = NewSemaphore(t)]
        /\ thread' = [thread EXCEPT ![t].pc = "enqueue", ![t].s = i]
    /\ lockObj' = NoThread
    /\ UNCHANGED <<mode, waitQueue, monQueue, due, wokenBy>>
    /\ UNCHANGED pageVars

\* wait: SemaphoreSlim s = new SemaphoreSlim(0)
WaitNew(t) ==
    /\ thread[t].pc = "new"
    /\ \E i \in SemIds :
        /\ i = FreshSem(sem, t)
        /\ sem' = [sem EXCEPT ![i] = NewSemaphore(t)]
        /\ thread' = [thread EXCEPT ![t].pc = "enqueue", ![t].s = i]
    /\ UNCHANGED <<mode, lockObj, waitQueue, monQueue, due, wokenBy>>
    /\ UNCHANGED pageVars

\* wait: waitQueue.Enqueue(s)
WaitEnqueue(t) ==
    /\ thread[t].pc = "enqueue"
    /\ LET q == QueueOf(thread[t].cv) IN
        /\ waitQueue' = [waitQueue EXCEPT ![q] = Enqueue(@, thread[t].s)]
        /\ due' = [due EXCEPT ![t] = Len(waitQueue'[q])]
    /\ thread' = [thread EXCEPT ![t].pc = "exit"]
    /\ UNCHANGED <<mode, lockObj, sem, monQueue, wokenBy>>
    /\ UNCHANGED pageVars

\* wait: Monitor.Exit(lockObj)
WaitExit(t) ==
    /\ thread[t].pc = "exit"
    /\ lockObj' = IF lockObj = t THEN NoThread ELSE lockObj
    /\ thread' = [thread EXCEPT ![t].pc = "swait"]
    /\ UNCHANGED <<mode, waitQueue, sem, monQueue, due, wokenBy>>
    /\ UNCHANGED pageVars

\* wait: s.Wait() is called; it returns at once when the count is positive
WaitSem(t) ==
    /\ thread[t].pc = "swait"
    /\ IF sem[thread[t].s].count > 0
       THEN /\ sem' = [sem EXCEPT ![thread[t].s].count = @ - 1]
            /\ thread' = [thread EXCEPT ![t].pc = "enter"]
       ELSE /\ sem' = sem
            /\ thread' = [thread EXCEPT ![t].pc = "blocked"]
    /\ UNCHANGED <<mode, lockObj, waitQueue, monQueue, due, wokenBy>>
    /\ UNCHANGED pageVars

\* wait: the thread blocked in s.Wait() is woken by a Release
WaitWake(t) ==
    /\ thread[t].pc = "blocked"
    /\ sem[thread[t].s].count > 0
    /\ sem' = [sem EXCEPT ![thread[t].s].count = @ - 1]
    /\ thread' = [thread EXCEPT ![t].pc = "enter"]
    /\ UNCHANGED <<mode, lockObj, waitQueue, monQueue, due, wokenBy>>
    /\ UNCHANGED pageVars

\* wait: Monitor.Enter(lockObj), and the return to the caller
WaitEnter(t) ==
    /\ thread[t].pc = "enter"
    /\ lockObj = NoThread
    /\ lockObj' = t
    /\ thread' = [thread EXCEPT ![t] = Local("held")]
    /\ sem' = Collect(sem, waitQueue, thread')
    /\ due' = [due EXCEPT ![t] = 0]
    /\ wokenBy' = [wokenBy EXCEPT ![t] = NoCV]
    /\ UNCHANGED <<mode, waitQueue, monQueue>>
    /\ UNCHANGED pageVars

\* the threads in c.wait() whose semaphore is in the queue or was taken from it
Waiting(th, c) ==
    {u \in Threads : th[u].cv = c /\ th[u].pc \in {"swait", "blocked"}}

\* signal: if (waitQueue.Count != 0)
SignalCount(t) ==
    /\ thread[t].pc = "scount"
    /\ thread' = [thread EXCEPT ![t].pc =
                     IF Len(waitQueue[QueueOf(thread[t].cv)]) # 0
                     THEN "sdequeue" ELSE "sreturn"]
    /\ UNCHANGED <<mode, lockObj, waitQueue, sem, monQueue, due, wokenBy>>
    /\ UNCHANGED pageVars

\* signal: s = waitQueue.Dequeue()
SignalDequeue(t) ==
    /\ thread[t].pc = "sdequeue"
    /\ LET q == QueueOf(thread[t].cv) IN
        /\ waitQueue[q] # <<>>
        /\ waitQueue' = [waitQueue EXCEPT ![q] = Dequeue(@).rest]
        /\ thread' = [thread EXCEPT ![t].pc = "srelease",
                                    ![t].s = Dequeue(waitQueue[q]).item]
    /\ UNCHANGED <<mode, lockObj, sem, monQueue, due, wokenBy>>
    /\ UNCHANGED pageVars

\* signal: s.Release()
SignalRelease(t) ==
    /\ thread[t].pc = "srelease"
    /\ sem' = Release(sem, thread, thread[t].s)
    /\ thread' = [thread EXCEPT ![t].pc = "sreturn",
                                ![t].rel = @ \cup {thread[t].s}]
    /\ wokenBy' = [u \in Threads |->
                      IF u = sem[thread[t].s].owner THEN thread[t].cv
                      ELSE wokenBy[u]]
    /\ UNCHANGED <<mode, lockObj, waitQueue, monQueue, due>>
    /\ UNCHANGED pageVars

\* signal returns to the caller, which still holds lockObj
SignalReturn(t) ==
    /\ thread[t].pc = "sreturn"
    /\ thread' = [thread EXCEPT ![t] = Local("held")]
    /\ sem' = Collect(sem, waitQueue, thread')
    /\ due' = [u \in Threads |->
                  IF u \in Waiting(thread, thread[t].cv) /\ due[u] > 0
                  THEN due[u] - 1 ELSE due[u]]
    /\ UNCHANGED <<mode, lockObj, waitQueue, monQueue, wokenBy>>
    /\ UNCHANGED pageVars

\* broadcast: while (waitQueue.Count != 0)
BroadcastCount(t) ==
    /\ thread[t].pc = "bcount"
    /\ thread' = [thread EXCEPT ![t].pc =
                     IF Len(waitQueue[QueueOf(thread[t].cv)]) # 0
                     THEN "bdequeue" ELSE "breturn"]
    /\ UNCHANGED <<mode, lockObj, waitQueue, sem, monQueue, due, wokenBy>>
    /\ UNCHANGED pageVars

\* broadcast: s = waitQueue.Dequeue()
BroadcastDequeue(t) ==
    /\ thread[t].pc = "bdequeue"
    /\ LET q == QueueOf(thread[t].cv) IN
        /\ waitQueue[q] # <<>>
        /\ waitQueue' = [waitQueue EXCEPT ![q] = Dequeue(@).rest]
        /\ thread' = [thread EXCEPT ![t].pc = "brelease",
                                    ![t].s = Dequeue(waitQueue[q]).item]
    /\ UNCHANGED <<mode, lockObj, sem, monQueue, due, wokenBy>>
    /\ UNCHANGED pageVars

BroadcastReleaseOnce(t) ==
    /\ thread[t].pc = "brelease"
    /\ sem' = Release(sem, thread, thread[t].s)
    /\ thread' = [thread EXCEPT ![t].pc = "breturn",
                                ![t].rel = @ \cup {thread[t].s}]
    /\ wokenBy' = [u \in Threads |->
                      IF u = sem[thread[t].s].owner THEN thread[t].cv
                      ELSE wokenBy[u]]
    /\ UNCHANGED <<mode, lockObj, waitQueue, monQueue, due>>
    /\ UNCHANGED pageVars

\* broadcast: s.Release(), and back to the loop's test
BroadcastRelease(t) ==
    /\ thread[t].pc = "brelease"
    /\ sem' = Release(sem, thread, thread[t].s)
    /\ thread' = [thread EXCEPT ![t].pc = "bcount",
                                ![t].rel = @ \cup {thread[t].s}]
    /\ wokenBy' = [u \in Threads |->
                      IF u = sem[thread[t].s].owner THEN thread[t].cv
                      ELSE wokenBy[u]]
    /\ UNCHANGED <<mode, lockObj, waitQueue, monQueue, due>>
    /\ UNCHANGED pageVars

\* broadcast returns to the caller, which still holds lockObj
BroadcastReturn(t) ==
    /\ thread[t].pc = "breturn"
    /\ thread' = [thread EXCEPT ![t] = Local("held")]
    /\ sem' = Collect(sem, waitQueue, thread')
    /\ due' = [u \in Threads |->
                  IF u \in Waiting(thread, thread[t].cv) THEN 0 ELSE due[u]]
    /\ UNCHANGED <<mode, lockObj, waitQueue, monQueue, wokenBy>>
    /\ UNCHANGED pageVars

-----------------------------------------------------------------------------
(* The same callers with Monitor alone: every thread waits on obj *)

\* Monitor.Wait(obj) in the loop on predicate c: the lock is released and the
\* thread joins the waiting queue of obj
MonWait(t, c) ==
    /\ mode = "Monitor"
    /\ thread[t].pc = "held"
    /\ lockObj' = NoThread
    /\ monQueue' = Append(monQueue, t)
    /\ thread' = [thread EXCEPT ![t].pc = "mwaiting", ![t].cv = c]
    /\ UNCHANGED <<mode, waitQueue, sem, due, wokenBy>>
    /\ UNCHANGED pageVars

\* Monitor.Pulse(obj) after the update that makes predicate c true: the
\* thread at the head of obj's waiting queue becomes ready
MonPulse(t, c) ==
    /\ mode = "Monitor"
    /\ thread[t].pc = "held"
    /\ monQueue # <<>>
    /\ monQueue' = Tail(monQueue)
    /\ thread' = [thread EXCEPT ![Head(monQueue)].pc = "mready"]
    /\ wokenBy' = [wokenBy EXCEPT ![Head(monQueue)] = c]
    /\ UNCHANGED <<mode, lockObj, waitQueue, sem, due>>
    /\ UNCHANGED pageVars

\* Monitor.Wait(obj) returns once the ready thread has the lock again
MonReenter(t) ==
    /\ thread[t].pc = "mready"
    /\ lockObj = NoThread
    /\ lockObj' = t
    /\ thread' = [thread EXCEPT ![t] = Local("held")]
    /\ wokenBy' = [wokenBy EXCEPT ![t] = NoCV]
    /\ UNCHANGED <<mode, waitQueue, sem, monQueue, due>>
    /\ UNCHANGED pageVars

\* one step of thread t
ThreadStep(t) ==
    \/ Enter(t)
    \/ Exit(t)
    \/ \E c \in CVs : Call(t, c, "new")
    \/ \E c \in CVs : Call(t, c, "scount")
    \/ \E c \in CVs : Call(t, c, "bcount")
    \/ WaitNew(t)
    \/ WaitEnqueue(t)
    \/ WaitExit(t)
    \/ WaitSem(t)
    \/ WaitWake(t)
    \/ WaitEnter(t)
    \/ SignalCount(t)
    \/ SignalDequeue(t)
    \/ SignalRelease(t)
    \/ SignalReturn(t)
    \/ BroadcastCount(t)
    \/ BroadcastDequeue(t)
    \/ BroadcastRelease(t)
    \/ BroadcastReturn(t)
    \/ \E c \in CVs : MonWait(t, c)
    \/ \E c \in CVs : MonPulse(t, c)
    \/ MonReenter(t)

NextCV == \E t \in Threads : ThreadStep(t)

\* the statements of wait, signal and broadcast that a running thread
\* executes without waiting for another thread
Running(t) ==
    \/ WaitNew(t)
    \/ WaitEnqueue(t)
    \/ WaitExit(t)
    \/ WaitSem(t)
    \/ WaitWake(t)
    \/ SignalCount(t)
    \/ SignalDequeue(t)
    \/ SignalRelease(t)
    \/ SignalReturn(t)
    \/ BroadcastCount(t)
    \/ BroadcastDequeue(t)
    \/ BroadcastRelease(t)
    \/ BroadcastReturn(t)

\* fair lock scheduling: a running thread goes on running, a thread that
\* holds lockObj leaves its lock block, and a thread that asks for lockObj
\* again and again as it becomes free gets it
FairLock ==
    \A t \in Threads :
        /\ WF_vars(Running(t))
        /\ SF_vars(Exit(t))
        /\ SF_vars(WaitEnter(t))

-----------------------------------------------------------------------------
(* Specifications *)

\* a page as authored: nothing rendered, no article hidden, no click made
InitPage ==
    /\ difficultyText = markup.difficulty
    /\ recommendText = markup.recommend
    /\ renders = 0
    /\ queue = <<>>
    /\ pc = "idle"
    /\ cur = NoTag
    /\ prev = NoTag
    /\ before = {}

\* the blog page under main.js, with any tags on its articles
Init ==
    /\ script = "main.js"
    /\ markup = [difficulty |-> intermediate, recommend |-> <<"3">>]
    /\ articles \in [Articles -> [tags : SUBSET ArticleLabels, hidearticle : {FALSE}]]
    /\ InitPage
    /\ mode = "CV"
    /\ InitThreads

Spec == Init /\ [][Next]_vars

\* a page with any rating texts under any of the script files
InitRender ==
    /\ script \in Scripts
    /\ markup \in [difficulty : DifficultyTexts, recommend : RecommendTexts]
    /\ articles = [a \in Articles |->
                      [tags |-> IF a = 1 THEN {NET} ELSE {NETFW, RD},
                       hidearticle |-> FALSE]]
    /\ InitPage
    /\ mode = "CV"
    /\ InitThreads

SpecRender == InitRender /\ [][Next]_vars

\* threads that use two condition variables, or Monitor alone, on a page
\* that nobody touches
InitCV ==
    /\ script = "main.js"
    /\ markup = [difficulty |-> intermediate, recommend |-> <<"3">>]
    /\ articles = [a \in Articles |-> [tags |-> {NETFW}, hidearticle |-> FALSE]]
    /\ InitPage
    /\ mode \in {"CV", "Monitor"}
    /\ InitThreads

SpecCV == InitCV /\ [][NextCV]_vars

SpecCVFair == InitCV /\ [][NextCV]_vars /\ FairLock

-----------------------------------------------------------------------------
(* Properties *)

\* w occurs in text as a contiguous run of characters
Occurs(w, text) ==
    \E i \in 1..Len(text) : \E j \in i..Len(text) : SubSeq(text, i, j) = w

\* n copies of filled followed by max - n copies of empty
Glyphs(n, max, filled, empty) ==
    [i \in 1..max |-> IF i <= n THEN filled ELSE empty]

Digit(n) == <<ToString(n)>>

Visible == (DOMAIN articles) \ Hidden

\* the handler started last has run to its end
Handled == pc = "idle" /\ cur # NoTag

\* C1: after the handler has run for a tag label t other than 'ALL', an
\* article is visible if and only if t is one of its tag labels.
C1_VisibleIffHasLabel ==
    (Handled /\ cur # ALL) =>
        \A a \in DOMAIN articles :
            (~articles[a].hidearticle) <=> (cur \in articles[a].tags)

\* C2: whatever was hidden before, after the handler has run for the tag
\* labelled 'ALL' no article carries the hidearticle marker.
C2_AllShowsEverything ==
    (Handled /\ cur = ALL) => Hidden = {}

\* an 'ALL' click handled from a state in which some article was hidden
C2_Witness ==
    Handled /\ cur = ALL /\ before # {} /\ Hidden = {}

\* C3: after the handler has run for a label other than 'ALL' that is no
\* article's tag label, every article is hidden.
C3_UnrecognisedHidesAll ==
    (Handled /\ cur # ALL /\ \A a \in DOMAIN articles : cur \notin articles[a].tags)
        => Hidden = DOMAIN articles

\* C4: under every script file, a difficulty element authored with the level
\* of rank r (1 beginner, 2 intermediate, 3 advanced) is rendered as the level
\* name, a space, r filled squares and 3 - r unfilled squares.
C4_DifficultyGlyphsByRank ==
    renders >= 1 =>
        \A r \in 1..3 :
            markup.difficulty = level[r] =>
                difficultyText =
                    level[r] \o <<" ">> \o Glyphs(r, 3, "U+25A0", "U+25A1")

C6_RerenderIdempotent ==
    [][(renders >= 1 /\ renders' > renders) =>
           (difficultyText' = difficultyText /\ recommendText' = recommendText)]_vars

\* the renderer has run twice on two elements that it did render
C6_Witness ==
    /\ renders >= 2
    /\ difficultyText # markup.difficulty
    /\ recommendText # markup.recommend

\* C7: when the handler has run for the same label as the handler before it,
\* the hidden articles are those hidden when it started.
C7_FilterIdempotent ==
    (Handled /\ prev = cur) => Hidden = before

\* '.NET' clicked twice in a row on a page where it hides some articles only
C7_Witness ==
    /\ Handled
    /\ prev = cur
    /\ cur = NET
    /\ Hidden # {}
    /\ Visible # {}

\* C8: an element whose authored text holds no value of its vocabulary keeps
\* that text when the renderer runs.
C8_UnrecognisedUnchanged ==
    renders >= 1 =>
        /\ (\A i \in 1..3 : ~Occurs(level[i], markup.difficulty))
               => difficultyText = markup.difficulty
        /\ (\A n \in 1..5 : ~Occurs(Digit(n), markup.recommend))
               => recommendText = markup.recommend

\* 'Advanced' and 'n/a' are still there after the renderer ran
C8_Witness ==
    /\ renders >= 1
    /\ markup.difficulty = Capitalised
    /\ difficultyText = Capitalised
    /\ markup.recommend = <<"n", "/", "a">>
    /\ recommendText = <<"n", "/", "a">>

\* C9: a step of the click handler changes no article's tag set and no
\* rendered difficulty or recommendation text.
C9_ClickChangesOnlyHidden ==
    [][(pc' # pc \/ Len(queue') < Len(queue)) =>
           (/\ TagsOf' = TagsOf
            /\ difficultyText' = difficultyText
            /\ recommendText' = recommendText)]_vars

\* a click on '.NET' was handled on a rendered page and hid some article
C9_Witness ==
    /\ Handled
    /\ cur = NET
    /\ Hidden # {}
    /\ Visible # {}
    /\ difficultyText # markup.difficulty

\* the articles a handled click on t leaves visible
VisibleAfter(t) ==
    IF t = ALL THEN DOMAIN articles
    ELSE {a \in DOMAIN articles :
             \E l \in articles[a].tags : Occurs(HtmlEscape(t), l)}

\* C10: a handler starts only when no other handler is between its two
\* steps, and once the handlers have run the visible articles are those of
\* the last click handled.
C10_HandlersRunToCompletion ==
    /\ [][Len(queue') < Len(queue) => pc = "idle"]_vars
    /\ [](Handled => Visible = VisibleAfter(cur))

\* a handler is between its two steps while two more clicks wait
C10_Witness ==
    /\ pc = "filter"
    /\ Len(queue) >= 2
    /\ prev # NoTag
    /\ Hidden = DOMAIN articles

\* C18: after the handler has run for a label t other than 'ALL', an article
\* is visible exactly when the text of one of its tags contains t as a
\* substring, and every article that carries the label t is visible.
C18_VisibleIffSubstring ==
    (Handled /\ cur # ALL) =>
        \A a \in DOMAIN articles :
            /\ (~articles[a].hidearticle)
                   <=> (\E l \in articles[a].tags : Occurs(cur, l))
            /\ (cur \in articles[a].tags) => ~articles[a].hidearticle

\* the elements of sequence q
Range(q) == {q[k] : k \in 1..Len(q)}

\* the queue of the condition variable that thread t's call is on
QueueAt(t) == waitQueue[QueueOf(thread[t].cv)]

\* thread t is in wait(), past Monitor.Exit and not past s.Wait()
InWait(t) == thread[t].pc \in {"swait", "blocked"}

\* C11: a signal() call that found threads waiting has dequeued and released
\* the semaphore at the front of the queue and no other; a broadcast() call
\* has released every semaphore that was queued when it started and leaves
\* the queue empty.
C11_SignalOneBroadcastAll ==
    \A t \in Threads :
        /\ thread[t].pc = "sreturn" =>
               /\ Cardinality(thread[t].rel) <= 1
               /\ thread[t].snap # <<>> =>
                      /\ thread[t].rel = {Head(thread[t].snap)}
                      /\ QueueAt(t) = Tail(thread[t].snap)
        /\ thread[t].pc = "breturn" =>
               /\ thread[t].rel = Range(thread[t].snap)
               /\ QueueAt(t) = <<>>

\* a signal() call that found two threads waiting is about to return
C11_Witness ==
    \E t \in Threads :
        /\ thread[t].pc = "sreturn"
        /\ Len(thread[t].snap) >= 2
        /\ Len(QueueAt(t)) = Len(thread[t].snap) - 1

\* C12: a signal() or broadcast() call that found the queue empty releases
\* no semaphore and leaves the queue empty; and a semaphore has a positive
\* count only after a signal() or broadcast() released it during its
\* owner's wait(), so that every wait() blocks until then.
C12_Stateless ==
    /\ \A t \in Threads :
           (thread[t].pc \in {"sreturn", "breturn"} /\ thread[t].snap = <<>>)
               => (thread[t].rel = {} /\ QueueAt(t) = <<>>)
    /\ \A t \in Threads :
           (thread[t].pc \in {"enqueue", "exit", "swait", "blocked"}
               /\ sem[thread[t].s].count > 0)
                   => wokenBy[t] # NoCV
    /\ \A c \in CVs : \A i \in Range(waitQueue[c]) : sem[i].count = 0

\* a signal() on queueOne found nobody waiting, after an earlier signal()
\* and while another thread stays blocked on queueTwo
C12_Witness ==
    \E t, u \in Threads :
        /\ thread[t].pc = "sreturn"
        /\ thread[t].cv = "queueOne"
        /\ thread[t].snap = <<>>
        /\ thread[u].pc = "blocked"
        /\ thread[u].cv = "queueTwo"
        /\ sem[thread[u].s].count = 0

\* a thread that enqueued at position k has its semaphore released once k
\* signal() calls on the same condition variable, or one broadcast(), have
\* returned since
ReleasedWhenDue ==
    \A t \in Threads :
        (InWait(t) /\ due[t] = 0) => sem[thread[t].s].count >= 1

\* C13: a thread that enqueued at position k has its semaphore released
\* after at most k later signal() calls on the same condition variable, or
\* one broadcast(); and under fair lock scheduling a thread whose semaphore
\* was released returns from s.Wait() and holds lockObj again.
C13_ReleasedAfterKSignals ==
    /\ []ReleasedWhenDue
    /\ \A t \in Threads :
           (InWait(t) /\ sem[thread[t].s].count >= 1) ~> (thread[t].pc = "held")

\* the thread that enqueued second has seen one signal() return and is
\* still due one more
C13_Witness ==
    \E t \in Threads :
        /\ thread[t].pc = "blocked"
        /\ due[t] = 1
        /\ wokenBy[t] = NoCV
        /\ \E u \in Threads : wokenBy[u] = thread[t].cv /\ thread[u].cv = thread[t].cv

\* C14: with class CV, a thread in wait() on one condition variable is woken
\* only by a signal() or broadcast() on that condition variable, and every
\* queued semaphore belongs to a thread that waits on the queue's own
\* condition variable.
C14_OwnWaitingQueue ==
    mode = "CV" =>
        /\ \A t \in Threads :
               (thread[t].pc \in {"swait", "blocked", "enter"}
                   /\ wokenBy[t] # NoCV) => wokenBy[t] = thread[t].cv
        /\ \A c \in CVs : \A i \in Range(waitQueue[c]) :
               thread[sem[i].owner].cv = c

\* a signal on queueTwo has woken its waiter while the thread waiting on
\* queueOne stays blocked
C14_Witness ==
    /\ mode = "CV"
    /\ \E t, u \in Threads :
        /\ thread[t].pc = "blocked"
        /\ thread[t].cv = "queueOne"
        /\ sem[thread[t].s].count = 0
        /\ thread[u].pc \in {"swait", "blocked", "enter"}
        /\ thread[u].cv = "queueTwo"
        /\ wokenBy[u] = "queueTwo"

\* with Monitor alone, a Pulse(obj) made for one predicate has made ready a
\* thread that waits for the other
MonitorPulseWakesOther ==
    /\ mode = "Monitor"
    /\ \E t \in Threads :
        /\ thread[t].pc = "mready"
        /\ wokenBy[t] # thread[t].cv

\* C15: a thread that is at an Enqueue, Dequeue or Count of a waitQueue holds
\* lockObj, so no two threads are at such a statement together.
C15_QueueUnderLock ==
    /\ \A t \in Threads :
           thread[t].pc \in {"enqueue", "scount", "sdequeue", "bcount", "bdequeue"}
               => lockObj = t
    /\ Cardinality({t \in Threads :
           thread[t].pc \in {"enqueue", "scount", "sdequeue", "bcount", "bdequeue"}})
               <= 1

\* a thread is at Dequeue while another, which left the lock in wait(), runs
C15_Witness ==
    \E t, u \in Threads :
        /\ thread[t].pc = "sdequeue"
        /\ lockObj = t
        /\ thread[u].pc = "swait"

\* C16: a waitQueue never holds more semaphores than there are threads, and
\* never two semaphores of the same thread.
C16_QueueAtMostThreads ==
    /\ \A c \in CVs : Len(waitQueue[c]) <= NumThreads
    /\ \A t \in Threads :
           Cardinality({<<c, k>> \in CVs \X (1..(NumThreads + 1)) :
                            /\ k <= Len(waitQueue[c])
                            /\ sem[waitQueue[c][k]].owner = t}) <= 1

\* every thread has its semaphore in the queue of queueOne
C16_Witness ==
    Len(waitQueue["queueOne"]) = NumThreads

\* C17: a thread in wait() whose semaphore was dequeued and released finds
\* its count positive, whether the release came before or after it called
\* s.Wait(): it is never left with a count of 0 and nobody about to release.
C17_ReleaseNotLost ==
    \A t \in Threads :
        (/\ InWait(t)
         /\ \A c \in CVs : thread[t].s \notin Range(waitQueue[c])
         /\ \A u \in Threads \ {t} : thread[u].s # thread[t].s)
            => sem[thread[t].s].count >= 1

\* the release came after Monitor.Exit and before the call of s.Wait()
C17_Witness ==
    \E t \in Threads :
        /\ thread[t].pc = "swait"
        /\ sem[thread[t].s].count = 1
        /\ wokenBy[t] = thread[t].cv

====
